---- MODULE Spec2Model ----
(***************************************************************************)
(* A model of pulp_rpm/app/modulemd.py: the package reconciler             *)
(* resolve_module_packages, the snippet materializer _create_snippet and   *)
(* the two metadata decomposers parse_modulemd and parse_defaults.         *)
(***************************************************************************)
EXTENDS FiniteSets, Integers, Sequences, TLC

\* ---------------------------------------------------------------- bounds
\* Module-stream records (Modulemd rows) a repository version may hold.
NumModules == 2
\* Streams the metadata index holds, over all its modules.
MaxStreams == 2
\* Entries of the module_names list handed to parse_modulemd.
MaxNames == 2
\* Dependency clauses of one stream.
MaxClauses == 2

Modules == 1..NumModules
\* Package rows the content store knows.
Packages == {"P1", "P2", "P3"}

\* Module names the index knows, and one it does not know.
ModuleNames == {"gorilla", "walrus"}
UnknownName == "ghost"
StreamOrder == <<"stable", "unstable">>
StreamNames == {StreamOrder[k] : k \in DOMAIN StreamOrder}
ArtifactLists == {<<>>, <<"gorilla-1.0.rpm">>}
\* Targets of runtime dependencies and the stream lists a clause may require.
DepModules == {"platform", "perl"}
StreamLists == {<<"f29">>, <<"f30">>, <<"f29", "f30">>}
ProfileLists == {<<>>, <<"default">>}

SeqsUpTo(S, n) == UNION {[1..k -> S] : k \in 0..n}

\* previous_version is None on a first sync: a version that does not exist.
None == [exists |-> FALSE, modules |-> {}]

\* A previous version holding the module-stream records `modules`.
Version(modules) == [exists |-> TRUE, modules |-> modules]

VARIABLES
    \* ---- resolve_module_packages
    version_modules,    \* version.content.filter(pulp_type="rpm.modulemd")
    previous_version,   \* None, or the previous version (its module content)
    module_packages,    \* module.packages.all(), for every module
    version_packages,   \* version.content.filter(pulp_type="rpm.package")
    initial_packages,   \* version_packages when the call started (history)
    added_modules,      \* local of resolve_module_packages
    packages_to_remove, \* local of resolve_module_packages
    packages_to_add,    \* local of resolve_module_packages
    calls,              \* the remove_content/add_content calls made, in order
    rpc,                \* position in resolve_module_packages
    \* ---- parse_modulemd, parse_defaults, _create_snippet
    op,                 \* the function that was called
    module_names,       \* argument of parse_modulemd
    module_index,       \* the libmodulemd index (read-only)
    ret,                \* the list being returned
    i,                  \* position of the outer for loop
    j,                  \* position of the loop over get_all_streams()
    modulemd,           \* the dict parse_modulemd is filling
    snippet_string,     \* argument of _create_snippet
    files,              \* temporary files in os.getcwd(): name -> content
    tmp_file,           \* tmp_file.name inside _create_snippet
    artifact,           \* what _create_snippet returned
    ppc                 \* position in the parser

rvars == <<version_modules, previous_version, module_packages, version_packages,
           initial_packages, added_modules, packages_to_remove, packages_to_add,
           calls, rpc>>

pvars == <<op, module_names, module_index, ret, i, j, modulemd, snippet_string,
           files, tmp_file, artifact, ppc>>

vars == <<rvars, pvars>>

\* ------------------------------------------------ resolve_module_packages


\* A slip of modules_packages: `packages = set(...)` in place of
\* packages.update(...), which keeps the last module's packages only.
modules_packages_last(modules) ==
    IF modules = {} THEN {}
    ELSE module_packages[CHOOSE m \in modules : \A o \in modules : o <= m]

\* modules_packages(modules): the union of module.packages.all()
modules_packages(modules) ==
    UNION {module_packages[module] : module \in modules}

\* current_modules = Modulemd.objects.filter(pk__in=version.content...)
current_modules == version_modules

\* previous_modules, read only where previous_version is not None
previous_modules == previous_version.modules


\* A slip of the test of previous_version: the removal branch always taken.
HasPreviousAlways == TRUE

\* if previous_version:
HasPrevious == previous_version.exists


\* A slip of added_modules: every current module counted as added.
AddedModulesAll == current_modules

\* added_modules = current_modules.difference(previous_modules)
AddedModules == current_modules \ previous_modules

\* else: added_modules = current_modules
AddedModulesFirstSync == current_modules

\* removed_modules = previous_modules.difference(current_modules)
removed_modules == previous_modules \ current_modules


\* A slip of packages_to_remove: the packages of the modules that stay are
\* not subtracted.
PackagesToRemoveAll == modules_packages(removed_modules)

\* packages_to_remove = removed_module_packages.difference(current_module_packages)
PackagesToRemove ==
    modules_packages(removed_modules) \ modules_packages(current_modules)


\* A slip of packages_to_add: the packages already in the version are not
\* subtracted.
PackagesToAddAll == modules_packages(added_modules)

\* A slip of packages_to_add: the difference taken the wrong way round.
PackagesToAddReversed == version_packages \ modules_packages(added_modules)

\* packages_to_add = added_module_packages.difference(current_packages),
\* current_packages being read from the version at that moment
PackagesToAdd ==
    modules_packages(added_modules) \ version_packages

\* lines 30-38: the branch taken when a previous version exists
ResolveRemove ==
    /\ rpc = "start"
    /\ HasPrevious
    /\ added_modules' = AddedModules
    /\ packages_to_remove' = PackagesToRemove
    /\ version_packages' = version_packages \ PackagesToRemove
    /\ calls' = Append(calls, <<"remove_content", PackagesToRemove>>)
    /\ rpc' = "add"
    /\ UNCHANGED <<version_modules, previous_version, module_packages,
                   initial_packages, packages_to_add>>
    /\ UNCHANGED pvars

\* lines 39-40: the branch taken on a first sync
ResolveFirstSync ==
    /\ rpc = "start"
    /\ ~HasPrevious
    /\ added_modules' = AddedModulesFirstSync
    /\ rpc' = "add"
    /\ UNCHANGED <<version_modules, previous_version, module_packages,
                   version_packages, initial_packages, packages_to_remove,
                   packages_to_add, calls>>
    /\ UNCHANGED pvars

\* lines 42-45
ResolveAdd ==
    /\ rpc = "add"
    /\ packages_to_add' = PackagesToAdd
    /\ version_packages' = version_packages \cup PackagesToAdd
    /\ calls' = Append(calls, <<"add_content", PackagesToAdd>>)
    /\ rpc' = "done"
    /\ UNCHANGED <<version_modules, previous_version, module_packages,
                   initial_packages, added_modules, packages_to_remove>>
    /\ UNCHANGED pvars

\* ------------------------------------------------------------ metadata
\* A dependency clause: the runtime modules it lists, in get_runtime_modules()
\* order, each with its get_runtime_streams(name).
ClauseNames(dep) == [k \in DOMAIN dep |-> dep[k][1]]

Clauses ==
    {dep \in SeqsUpTo(DepModules \X StreamLists, Cardinality(DepModules)) :
        \A a, b \in DOMAIN dep : a # b => dep[a][1] # dep[b][1]}

\* dep.get_runtime_modules()
get_runtime_modules(dep) == ClauseNames(dep)

\* dep.get_runtime_streams(dependency)
get_runtime_streams(dep, dependency) ==
    dep[CHOOSE k \in DOMAIN dep : dep[k][1] = dependency][2]

\* A stream handle of module `name`.
StreamHandle(name, stream, artifacts, deps) ==
    [module_name |-> name, stream_name |-> stream, version |-> 20180816,
     context |-> "6c81f848", arch |-> "x86_64",
     rpm_artifacts |-> artifacts, dependencies |-> deps]

\* A defaults handle; `exists` is FALSE for the None get_defaults() may return.
NoDefaults ==
    [exists |-> FALSE, default_stream |-> "", profiles |-> [st \in StreamNames |-> <<>>]]

DefaultsHandles ==
    {[exists |-> TRUE, default_stream |-> ds, profiles |-> pr] :
        ds \in StreamNames, pr \in [StreamNames -> ProfileLists]}


\* A slip of the stream loop: only the first stream of a module is taken.
get_first_stream(module) ==
    IF module_index.streams[module] = <<>> THEN <<>>
    ELSE <<module_index.streams[module][1]>>

\* module_index.get_module(module).get_all_streams()
get_all_streams(module) == module_index.streams[module]

\* module_index.get_module(module).get_defaults()
get_defaults(module) == module_index.defaults[module]

\* defaults.get_default_profiles_for_stream(default_stream)
get_default_profiles_for_stream(defaults, stream) == defaults.profiles[stream]

\* module_index.get_default_streams().keys()
get_default_streams_keys == module_index.default_streams

\* ------------------------------------------------------------ json.dumps
RECURSIVE Join(_, _)
Join(strs, sep) ==
    IF Len(strs) = 0 THEN ""
    ELSE IF Len(strs) = 1 THEN strs[1]
    ELSE strs[1] \o sep \o Join(Tail(strs), sep)

Quote(str) == "\"" \o str \o "\""

\* json.dumps of a list of strings
json_dumps_list(l) ==
    "[" \o Join([k \in DOMAIN l |-> Quote(l[k])], ", ") \o "]"

\* json.dumps of a dict (kept in insertion order) from strings to lists
json_dumps_dict(d) ==
    "{" \o Join([k \in DOMAIN d |-> Quote(d[k][1]) \o ": " \o json_dumps_list(d[k][2])],
                ", ") \o "}"


\* A slip of the dependency map: dependencies.setdefault(dependency, value),
\* which keeps the first clause's streams.
dict_setdefault(d, key, value) ==
    IF \E k \in DOMAIN d : d[k][1] = key THEN d ELSE Append(d, <<key, value>>)

\* dependencies[dependency] = value, on a dict kept as its items in insertion
\* order: an existing key keeps its place and takes the new value
dict_setitem(d, key, value) ==
    IF \E k \in DOMAIN d : d[k][1] = key
    THEN [k \in DOMAIN d |-> IF d[k][1] = key THEN <<key, value>> ELSE d[k]]
    ELSE Append(d, <<key, value>>)

\* lines 91-93: the inner loop over one clause's runtime modules
RECURSIVE ClauseInto(_, _, _)
ClauseInto(d, dep, d_list) ==
    IF d_list = <<>> THEN d
    ELSE ClauseInto(dict_setitem(d, Head(d_list), get_runtime_streams(dep, Head(d_list))),
                    dep, Tail(d_list))

\* lines 88-93: the loop over the stream's dependency clauses
RECURSIVE DependenciesInto(_, _)
DependenciesInto(d, dependencies_list) ==
    IF dependencies_list = <<>> THEN d
    ELSE DependenciesInto(
            ClauseInto(d, Head(dependencies_list),
                       get_runtime_modules(Head(dependencies_list))),
            Tail(dependencies_list))

Dependencies(s) == DependenciesInto(<<>>, s.dependencies)

\* ------------------------------------------------- ModuleIndex.dump_to_string
DumpStream(s) ==
    "---\ndocument: modulemd\nversion: 2\ndata:\n  name: " \o s.module_name
    \o "\n  stream: " \o s.stream_name
    \o "\n  version: " \o ToString(s.version)
    \o "\n  context: " \o s.context
    \o "\n  arch: " \o s.arch
    \o "\n  dependencies: "
    \o Join([c \in DOMAIN s.dependencies |->
                "{requires: " \o json_dumps_dict(s.dependencies[c]) \o "}"], ", ")
    \o "\n  artifacts:\n    rpms: " \o json_dumps_list(s.rpm_artifacts)
    \o "\n...\n"

DumpDefaults(module, defaults) ==
    "---\ndocument: modulemd-defaults\nversion: 1\ndata:\n  module: " \o module
    \o "\n  stream: " \o defaults.default_stream
    \o "\n  profiles: {"
    \o Join([k \in DOMAIN StreamOrder |->
                StreamOrder[k] \o ": "
                    \o json_dumps_list(defaults.profiles[StreamOrder[k]])], ", ")
    \o "}\n...\n"

\* temp_index = ModuleIndex.new(); temp_index.add_module_stream(s);
\* temp_index.dump_to_string()
StreamSnippet(s) == DumpStream(s)

\* temp_index = ModuleIndex.new(); temp_index.add_defaults(defaults);
\* temp_index.dump_to_string()
DefaultsSnippet(module, defaults) == DumpDefaults(module, defaults)

\* The digest Artifact.init_and_validate computes over the file's bytes: a
\* collision-free hash, equal for equal contents and for no others.
Sha256(bytes) == [algorithm |-> "sha256", of |-> bytes]

NoArtifact == [file |-> 0, sha256 |-> Sha256("")]

\* Artifact.init_and_validate(name): an unsaved Artifact over the named file
init_and_validate(name) == [file |-> name, sha256 |-> Sha256(files[name])]

\* tempfile.NamedTemporaryFile: a name no existing file has
NewTmpName == Cardinality(DOMAIN files) + 1

\* ------------------------------------------------------ _create_snippet
\* line 60: the temporary file is created, empty, with delete=False
CreateTmp ==
    /\ ppc = "snippet"
    /\ tmp_file' = NewTmpName
    /\ files' = [n \in DOMAIN files \cup {NewTmpName} |->
                    IF n = NewTmpName THEN "" ELSE files[n]]
    /\ ppc' = "tmp_created"
    /\ UNCHANGED <<op, module_names, module_index, ret, i, j, modulemd,
                   snippet_string, artifact>>
    /\ UNCHANGED rvars

\* lines 61-62: the snippet is written
SnippetWrite ==
    /\ ppc = "tmp_created"
    /\ files' = [files EXCEPT ![tmp_file] = snippet_string]
    /\ ppc' = "written"
    /\ UNCHANGED <<op, module_names, module_index, ret, i, j, modulemd,
                   snippet_string, tmp_file, artifact>>
    /\ UNCHANGED rvars

\* lines 61-62 raise (an I/O failure): the exception leaves _create_snippet
\* and its caller
SnippetWriteFail ==
    /\ ppc = "tmp_created"
    /\ ppc' = "failed"
    /\ UNCHANGED <<op, module_names, module_index, ret, i, j, modulemd,
                   snippet_string, files, tmp_file, artifact>>
    /\ UNCHANGED rvars

\* line 63 returns the artifact
SnippetValidate ==
    /\ ppc = "written"
    /\ artifact' = init_and_validate(tmp_file)
    /\ ppc' = "returned"
    /\ UNCHANGED <<op, module_names, module_index, ret, i, j, modulemd,
                   snippet_string, files, tmp_file>>
    /\ UNCHANGED rvars

\* line 63 raises
SnippetValidateFail ==
    /\ ppc = "written"
    /\ ppc' = "failed"
    /\ UNCHANGED <<op, module_names, module_index, ret, i, j, modulemd,
                   snippet_string, files, tmp_file, artifact>>
    /\ UNCHANGED rvars

\* ------------------------------------------------------- parse_modulemd
\* lines 80-94: the dict of stream s, before its artifact is attached
ModulemdDict(s) ==
    [name |-> s.module_name, stream |-> s.stream_name, version |-> s.version,
     context |-> s.context, arch |-> s.arch,
     artifacts |-> json_dumps_list(s.rpm_artifacts),
     dependencies |-> json_dumps_dict(Dependencies(s)),
     artifact |-> NoArtifact]

NoDict == ModulemdDict(StreamHandle("", "", <<>>, <<>>))

InModulemd == op = "parse_modulemd" /\ ppc = "loop"

\* line 79 on a name the index does not hold: get_module returns None
ModulemdNotFound ==
    /\ InModulemd
    /\ i <= Len(module_names)
    /\ module_names[i] \notin DOMAIN module_index.streams
    /\ ppc' = "failed"
    /\ UNCHANGED <<op, module_names, module_index, ret, i, j, modulemd,
                   snippet_string, files, tmp_file, artifact>>
    /\ UNCHANGED rvars

\* lines 79-98: one stream, up to the call of _create_snippet
ModulemdStream ==
    /\ InModulemd
    /\ i <= Len(module_names)
    /\ module_names[i] \in DOMAIN module_index.streams
    /\ j <= Len(get_all_streams(module_names[i]))
    /\ LET s == get_all_streams(module_names[i])[j]
       IN  /\ modulemd' = ModulemdDict(s)
           /\ snippet_string' = StreamSnippet(s)
    /\ ppc' = "snippet"
    /\ UNCHANGED <<op, module_names, module_index, ret, i, j, files, tmp_file,
                   artifact>>
    /\ UNCHANGED rvars

\* lines 99-100: the record is appended
ModulemdAppend ==
    /\ op = "parse_modulemd"
    /\ ppc = "returned"
    /\ ret' = Append(ret, [modulemd EXCEPT !.artifact = artifact])
    /\ j' = j + 1
    /\ ppc' = "loop"
    /\ UNCHANGED <<op, module_names, module_index, i, modulemd, snippet_string,
                   files, tmp_file, artifact>>
    /\ UNCHANGED rvars

\* line 78: the streams of this module are exhausted
ModulemdNextModule ==
    /\ InModulemd
    /\ i <= Len(module_names)
    /\ module_names[i] \in DOMAIN module_index.streams
    /\ j > Len(get_all_streams(module_names[i]))
    /\ i' = i + 1
    /\ j' = 1
    /\ UNCHANGED <<op, module_names, module_index, ret, modulemd, snippet_string,
                   files, tmp_file, artifact, ppc>>
    /\ UNCHANGED rvars

\* line 101
ModulemdReturn ==
    /\ InModulemd
    /\ i > Len(module_names)
    /\ ppc' = "done"
    /\ UNCHANGED <<op, module_names, module_index, ret, i, j, modulemd,
                   snippet_string, files, tmp_file, artifact>>
    /\ UNCHANGED rvars

\* ------------------------------------------------------- parse_defaults
InDefaults == op = "parse_defaults" /\ ppc = "loop"


\* A slip of parse_defaults: the test of the defaults object left out.
HasDefaultsAlways(defaults) == TRUE

\* if defaults:
HasDefaults(defaults) == defaults.exists

\* lines 128-134
DefaultsDict(module, defaults, art) ==
    [module |-> module,
     stream |-> defaults.default_stream,
     profiles |-> json_dumps_list(
                    get_default_profiles_for_stream(defaults, defaults.default_stream)),
     digest |-> art.sha256,
     artifact |-> art]

\* lines 118-121 on a key whose defaults object is absent
DefaultsSkip ==
    /\ InDefaults
    /\ i <= Len(get_default_streams_keys)
    /\ ~HasDefaults(get_defaults(get_default_streams_keys[i]))
    /\ i' = i + 1
    /\ UNCHANGED <<op, module_names, module_index, ret, j, modulemd,
                   snippet_string, files, tmp_file, artifact, ppc>>
    /\ UNCHANGED rvars

\* lines 118-127: one defaults object, up to the call of _create_snippet
DefaultsEntry ==
    /\ InDefaults
    /\ i <= Len(get_default_streams_keys)
    /\ HasDefaults(get_defaults(get_default_streams_keys[i]))
    /\ snippet_string' = DefaultsSnippet(get_default_streams_keys[i],
                                         get_defaults(get_default_streams_keys[i]))
    /\ ppc' = "snippet"
    /\ UNCHANGED <<op, module_names, module_index, ret, i, j, modulemd, files,
                   tmp_file, artifact>>
    /\ UNCHANGED rvars

\* lines 128-134
DefaultsAppend ==
    /\ op = "parse_defaults"
    /\ ppc = "returned"
    /\ ret' = Append(ret, DefaultsDict(get_default_streams_keys[i],
                                       get_defaults(get_default_streams_keys[i]),
                                       artifact))
    /\ i' = i + 1
    /\ ppc' = "loop"
    /\ UNCHANGED <<op, module_names, module_index, j, modulemd, snippet_string,
                   files, tmp_file, artifact>>
    /\ UNCHANGED rvars

\* line 135
DefaultsReturn ==
    /\ InDefaults
    /\ i > Len(get_default_streams_keys)
    /\ ppc' = "done"
    /\ UNCHANGED <<op, module_names, module_index, ret, i, j, modulemd,
                   snippet_string, files, tmp_file, artifact>>
    /\ UNCHANGED rvars

\* ----------------------------------------------------------------- Init
EmptyIndex ==
    [streams |-> [m \in ModuleNames |-> <<>>],
     defaults |-> [m \in ModuleNames |-> NoDefaults],
     default_streams |-> <<>>]

NoFiles == [n \in {} |-> ""]

\* No call of resolve_module_packages is under way.
RIdle ==
    /\ version_modules = {}
    /\ previous_version = None
    /\ module_packages = [m \in Modules |-> {}]
    /\ version_packages = {}
    /\ initial_packages = {}
    /\ added_modules = {}
    /\ packages_to_remove = {}
    /\ packages_to_add = {}
    /\ calls = <<>>
    /\ rpc = "idle"

\* The parser's locals as a call starts.
PStart ==
    /\ ret = <<>>
    /\ i = 1
    /\ j = 1
    /\ modulemd = NoDict
    /\ snippet_string = ""
    /\ files = NoFiles
    /\ tmp_file = 0
    /\ artifact = NoArtifact

\* resolve_module_packages(version, previous_version) is called
RInit ==
    /\ version_modules \in SUBSET Modules
    /\ previous_version \in {None} \cup {Version(ms) : ms \in SUBSET Modules}
    /\ module_packages \in [Modules -> SUBSET Packages]
    /\ version_packages \in SUBSET Packages
    /\ initial_packages = version_packages
    /\ added_modules = {}
    /\ packages_to_remove = {}
    /\ packages_to_add = {}
    /\ calls = <<>>
    /\ rpc = "start"
    /\ op = "resolve_module_packages"
    /\ module_names = <<>>
    /\ module_index = EmptyIndex
    /\ PStart
    /\ ppc = "idle"

TotalStreams(streams) ==
    LET RECURSIVE Sum(_)
        Sum(ms) == IF ms = {} THEN 0
                   ELSE LET m == CHOOSE x \in ms : TRUE
                        IN  Len(streams[m]) + Sum(ms \ {m})
    IN  Sum(DOMAIN streams)

\* The streams an index may hold: any streams, without dependencies ...
PlainIndexes ==
    {[m \in ModuleNames |->
        [k \in DOMAIN shapes[m] |->
            StreamHandle(m, shapes[m][k][1], shapes[m][k][2], <<>>)]] :
        shapes \in {f \in [ModuleNames -> SeqsUpTo(StreamNames \X ArtifactLists, MaxStreams)] :
                        TotalStreams(f) <= MaxStreams}}

\* ... or one stream with any dependency clauses
DependencyIndexes ==
    {[m \in ModuleNames |->
        IF m = "gorilla"
        THEN <<StreamHandle(m, "stable", <<"gorilla-1.0.rpm">>, deps)>>
        ELSE <<>>] :
        deps \in SeqsUpTo(Clauses, MaxClauses)}

\* parse_modulemd(module_names, module_index) is called
MInit ==
    /\ RIdle
    /\ op = "parse_modulemd"
    /\ \/ /\ module_names \in SeqsUpTo(ModuleNames \cup {UnknownName}, MaxNames)
          /\ \E streams \in PlainIndexes :
                module_index = [EmptyIndex EXCEPT !.streams = streams]
       \/ /\ module_names = <<"gorilla">>
          /\ \E streams \in DependencyIndexes :
                module_index = [EmptyIndex EXCEPT !.streams = streams]
    /\ PStart
    /\ ppc = "loop"

\* The key sequences of a mapping over ModuleNames: no name twice.
KeyOrders ==
    {keys \in SeqsUpTo(ModuleNames, Cardinality(ModuleNames)) :
        \A a, b \in DOMAIN keys : a # b => keys[a] # keys[b]}

\* parse_defaults(module_index) is called
DInit ==
    /\ RIdle
    /\ op = "parse_defaults"
    /\ module_names = <<>>
    /\ \E keys \in KeyOrders, defaults \in [ModuleNames -> DefaultsHandles \cup {NoDefaults}] :
            module_index = [EmptyIndex EXCEPT !.defaults = defaults,
                                              !.default_streams = keys]
    /\ PStart
    /\ ppc = "loop"

Init == RInit \/ MInit \/ DInit

Next ==
    \/ ResolveRemove
    \/ ResolveFirstSync
    \/ ResolveAdd
    \/ CreateTmp
    \/ SnippetWrite
    \/ SnippetWriteFail
    \/ SnippetValidate
    \/ SnippetValidateFail
    \/ ModulemdNotFound
    \/ ModulemdStream
    \/ ModulemdAppend
    \/ ModulemdNextModule
    \/ ModulemdReturn
    \/ DefaultsSkip
    \/ DefaultsEntry
    \/ DefaultsAppend
    \/ DefaultsReturn

Spec == Init /\ [][Next]_vars

\* ======================================================== the reconciler
\* What the claims speak of, stated from the inputs alone.
ReachableFrom(ms) ==
    {p \in Packages : \E m \in ms : p \in module_packages[m]}

Resolving == rpc \in {"start", "add", "done"}
FirstSync == Resolving /\ ~previous_version.exists
Resync == Resolving /\ previous_version.exists

\* The modules of the previous version that the next version lacks, and the
\* other way round (every module of the next version on a first sync).
GoneModules == previous_version.modules \ version_modules
NewModules ==
    IF previous_version.exists THEN version_modules \ previous_version.modules
    ELSE version_modules
KeptModules == version_modules \cap previous_version.modules

\* Packages of a module that went and of no module of the next version.
Orphans == ReachableFrom(GoneModules) \ ReachableFrom(version_modules)

RemoveCalls == SelectSeq(calls, LAMBDA c : c[1] = "remove_content")
AddCalls == SelectSeq(calls, LAMBDA c : c[1] = "add_content")

\* C1 (as amended): remove_content is never handed a package reachable from a
\* module of the next version, and such a package that is in the version when
\* the reconciliation starts is in the version at every later step.
C1_SharedPackageNeverRemoved ==
    Resolving =>
        /\ \A k \in DOMAIN RemoveCalls :
                RemoveCalls[k][2] \cap ReachableFrom(version_modules) = {}
        /\ packages_to_remove \cap ReachableFrom(version_modules) = {}
        /\ (initial_packages \cap ReachableFrom(version_modules)) \subseteq version_packages

\* C1 as stated: with a previous version, every package reachable from a
\* module of the next version is in the version at the step between
\* remove_content and add_content, and at the end.
C1_ReachableAlwaysPresent ==
    (Resync /\ rpc \in {"add", "done"}) =>
        /\ \A k \in DOMAIN RemoveCalls :
                RemoveCalls[k][2] \cap ReachableFrom(version_modules) = {}
        /\ ReachableFrom(version_modules) \subseteq version_packages

\* A package of the version shared by a module that went and a module that
\* stays, while another package is removed.
C1_Witness ==
    /\ rpc = "done"
    /\ previous_version.exists
    /\ packages_to_remove # {}
    /\ \E p \in initial_packages :
            /\ p \in ReachableFrom(GoneModules)
            /\ p \in ReachableFrom(KeptModules)
            /\ p \in version_packages

\* C2: on a first sync remove_content is never called, every module of the
\* version is treated as added, and the one mutation of the version is a
\* single add_content call.
C2_FirstSyncOnlyAdds ==
    FirstSync =>
        /\ RemoveCalls = <<>>
        /\ packages_to_remove = {}
        /\ rpc \in {"add", "done"} => added_modules = version_modules
        /\ rpc # "done" => calls = <<>> /\ version_packages = initial_packages
        /\ rpc = "done" =>
            /\ calls = <<<<"add_content",
                           ReachableFrom(version_modules) \ initial_packages>>>>
            /\ version_packages = initial_packages \cup ReachableFrom(version_modules)

C2_Witness ==
    /\ rpc = "done"
    /\ ~previous_version.exists
    /\ Cardinality(version_modules) = 2
    /\ packages_to_add # {}
    /\ initial_packages # {}

\* C3: when the next version's modules are the previous version's modules,
\* remove_content and add_content are both handed the empty set and the
\* version's packages do not change.
C3_SameModulesNoChange ==
    (Resync /\ previous_version.modules = version_modules) =>
        /\ \A k \in DOMAIN calls : calls[k][2] = {}
        /\ packages_to_remove = {}
        /\ packages_to_add = {}
        /\ version_packages = initial_packages
        /\ rpc = "done" => calls = <<<<"remove_content", {}>>, <<"add_content", {}>>>>

\* Unchanged modules that own a package the version does not hold.
C3_Witness ==
    /\ rpc = "done"
    /\ previous_version.exists
    /\ previous_version.modules = version_modules
    /\ version_modules # {}
    /\ ~(ReachableFrom(version_modules) \subseteq initial_packages)
    /\ Len(calls) = 2

\* C4 (as amended): after the reconciliation the version holds every package
\* reachable from an added module; of the packages reachable from the other
\* modules of the next version it holds those it held at the start.
C4_AddedModulesPackagesPresent ==
    rpc = "done" =>
        /\ ReachableFrom(NewModules) \subseteq version_packages
        /\ version_packages \cap ReachableFrom(version_modules)
            = ReachableFrom(version_modules)
                \cap (initial_packages \cup ReachableFrom(NewModules))

\* C4 as stated: after the reconciliation the version holds every package
\* reachable from a module of the next version.
C4_AllReachablePresent ==
    rpc = "done" => ReachableFrom(version_modules) \subseteq version_packages

\* An added module's package is added while a kept module's package that
\* the version lacked is still lacking.
C4_Witness ==
    /\ rpc = "done"
    /\ previous_version.exists
    /\ packages_to_add # {}
    /\ \E p \in ReachableFrom(KeptModules) :
            p \notin initial_packages /\ p \notin version_packages

\* C5: with a previous version, the packages removed are exactly the
\* orphans: reachable from a module that went, from no module of the next
\* version. None stays in the version, nothing else leaves it. For previous
\* {M1 -> {P1,P2}} and next {M2 -> {P2,P3}} the removed set is {P1}.
C5_RemovedAreExactlyOrphans ==
    (Resync /\ rpc \in {"add", "done"}) =>
        /\ packages_to_remove = Orphans
        /\ RemoveCalls = <<<<"remove_content", Orphans>>>>
        /\ version_packages \cap Orphans = {}
        /\ initial_packages \ version_packages = initial_packages \cap Orphans
        /\ (/\ previous_version.modules = {1}
            /\ version_modules = {2}
            /\ module_packages[1] = {"P1", "P2"}
            /\ module_packages[2] = {"P2", "P3"}) => packages_to_remove = {"P1"}

C5_Witness ==
    /\ rpc = "done"
    /\ previous_version = Version({1})
    /\ version_modules = {2}
    /\ module_packages[1] = {"P1", "P2"}
    /\ module_packages[2] = {"P2", "P3"}
    /\ initial_packages = {"P1", "P2"}
    /\ packages_to_remove = {"P1"}
    /\ packages_to_add = {"P3"}
    /\ version_packages = {"P2", "P3"}

\* C9: the packages added are (packages reachable from added modules) minus
\* (the version's packages before any removal), although the code reads the
\* version after remove_content; so no package is removed and then added.
C9_AddSetFromSnapshot ==
    rpc = "done" =>
        /\ packages_to_add = ReachableFrom(NewModules) \ initial_packages
        /\ AddCalls = <<<<"add_content", ReachableFrom(NewModules) \ initial_packages>>>>
        /\ packages_to_add \cap packages_to_remove = {}

\* Something is removed, something is added, and a package the version held
\* belongs to an added module.
C9_Witness ==
    /\ rpc = "done"
    /\ previous_version.exists
    /\ packages_to_remove # {}
    /\ packages_to_add # {}
    /\ initial_packages \cap ReachableFrom(NewModules) # {}
    /\ initial_packages \cap ReachableFrom(NewModules) \cap ReachableFrom(GoneModules) # {}

\* =========================================================== the parsers
\* The streams parse_modulemd is asked for: those of each requested name, in
\* the order of the names and then in the index's order.
RECURSIVE RequestedStreams(_)
RequestedStreams(names) ==
    IF names = <<>> THEN <<>>
    ELSE module_index.streams[Head(names)] \o RequestedStreams(Tail(names))

ModulemdDone == op = "parse_modulemd" /\ ppc = "done"

\* C6: parse_modulemd returns one record for every stream of every requested
\* module, in the order of the names and then of the index's streams, and a
\* stream without artifacts yields a record whose artifacts are "[]".
C6_OneRecordPerStream ==
    ModulemdDone =>
        LET want == RequestedStreams(module_names)
        IN  /\ Len(ret) = Len(want)
            /\ \A k \in DOMAIN ret :
                /\ ret[k].name = want[k].module_name
                /\ ret[k].stream = want[k].stream_name
                /\ ret[k].version = want[k].version
                /\ ret[k].context = want[k].context
                /\ ret[k].arch = want[k].arch
                /\ want[k].rpm_artifacts = <<>> => ret[k].artifacts = "[]"
                /\ want[k].rpm_artifacts = <<"gorilla-1.0.rpm">>
                        => ret[k].artifacts = "[\"gorilla-1.0.rpm\"]"

\* gorilla with the streams stable (one artifact) and unstable (none).
C6_Witness ==
    /\ ModulemdDone
    /\ module_names = <<"gorilla">>
    /\ Len(module_index.streams["gorilla"]) = 2
    /\ module_index.streams["gorilla"][1].stream_name = "stable"
    /\ module_index.streams["gorilla"][1].rpm_artifacts = <<"gorilla-1.0.rpm">>
    /\ module_index.streams["gorilla"][2].stream_name = "unstable"
    /\ module_index.streams["gorilla"][2].rpm_artifacts = <<>>
    /\ Len(ret) = 2
    /\ ret[2].stream = "unstable"
    /\ ret[2].artifacts = "[]"

\* The dependency map the claim describes, from the clauses alone: the
\* target names in the order they first appear, each with the stream list of
\* the last clause that lists it.
Lists(dep, name) == \E k \in DOMAIN dep : dep[k][1] = name

Targets(deps) == {n \in DepModules : \E c \in DOMAIN deps : Lists(deps[c], n)}

FirstPlace(deps, name) ==
    LET c == CHOOSE c \in DOMAIN deps :
                /\ Lists(deps[c], name)
                /\ \A b \in DOMAIN deps : Lists(deps[b], name) => c <= b
        k == CHOOSE k \in DOMAIN deps[c] : deps[c][k][1] = name
    IN  <<c, k>>

Earlier(a, b) == a[1] < b[1] \/ (a[1] = b[1] /\ a[2] < b[2])

LastStreams(deps, name) ==
    LET c == CHOOSE c \in DOMAIN deps :
                /\ Lists(deps[c], name)
                /\ \A b \in DOMAIN deps : Lists(deps[b], name) => b <= c
        k == CHOOSE k \in DOMAIN deps[c] : deps[c][k][1] = name
    IN  deps[c][k][2]

LastWins(deps) ==
    [r \in 1..Cardinality(Targets(deps)) |->
        LET n == CHOOSE n \in Targets(deps) :
                    Cardinality({o \in Targets(deps) :
                        Earlier(FirstPlace(deps, o), FirstPlace(deps, n))}) = r - 1
        IN  <<n, LastStreams(deps, n)>>]

\* C7: in a stream's record the dependency map gives each target module the
\* stream list of the last clause that lists it; an earlier clause for the
\* same module is overwritten, not merged.
C7_LastClauseWins ==
    ModulemdDone =>
        LET want == RequestedStreams(module_names)
        IN  \A k \in DOMAIN ret :
                k \in DOMAIN want =>
                    ret[k].dependencies = json_dumps_dict(LastWins(want[k].dependencies))

\* Two clauses for platform, and a clause that lists two modules.
C7_Witness ==
    /\ ModulemdDone
    /\ Len(ret) = 1
    /\ Len(module_index.streams["gorilla"]) = 1
    /\ module_index.streams["gorilla"][1].dependencies
        = << <<<<"platform", <<"f29">>>>, <<"perl", <<"f29", "f30">>>>>>,
             <<<<"platform", <<"f30">>>>>> >>
    /\ ret[1].dependencies = "{\"platform\": [\"f30\"], \"perl\": [\"f29\", \"f30\"]}"

DefaultsRunning == op = "parse_defaults"

\* The keys whose defaults object is present, in key order.
RECURSIVE WithDefaults(_)
WithDefaults(keys) ==
    IF keys = <<>> THEN <<>>
    ELSE (IF module_index.defaults[Head(keys)].exists THEN <<Head(keys)>> ELSE <<>>)
            \o WithDefaults(Tail(keys))

\* C8: parse_defaults returns one record for each key of the default streams
\* whose defaults object is present, in key order, none for a key whose
\* defaults object is absent, and does not fail on such a key; each record's
\* digest is the hash of the snippet materialized for that module's defaults.
C8_DefaultsRecords ==
    DefaultsRunning =>
        /\ ppc = "failed" =>
                /\ i \in DOMAIN module_index.default_streams
                /\ module_index.defaults[module_index.default_streams[i]].exists
        /\ ppc = "done" =>
                LET want == WithDefaults(module_index.default_streams)
                IN  /\ Len(ret) = Len(want)
                    /\ \A k \in DOMAIN ret :
                        /\ ret[k].module = want[k]
                        /\ ret[k].stream = module_index.defaults[want[k]].default_stream
                        /\ ret[k].digest
                            = Sha256(DumpDefaults(want[k], module_index.defaults[want[k]]))
                        /\ ret[k].artifact.file \in DOMAIN files
                        /\ ret[k].digest = Sha256(files[ret[k].artifact.file])

\* A key without a defaults object before a key with one.
C8_Witness ==
    /\ DefaultsRunning
    /\ ppc = "done"
    /\ module_index.default_streams = <<"gorilla", "walrus">>
    /\ ~module_index.defaults["gorilla"].exists
    /\ module_index.defaults["walrus"].exists
    /\ Len(ret) = 1
    /\ ret[1].module = "walrus"

\* C10: every temporary file _create_snippet creates is gone once the call
\* has ended, by return or by failure; so none is left when parse_modulemd or
\* parse_defaults has returned or has been aborted.
C10_TemporaryFilesReleased ==
    ppc \in {"loop", "snippet", "returned", "failed", "done"} => DOMAIN files = {}

====
